---- MODULE Spec2Model ----
(***************************************************************************)
(* from_value (src/src/lib.rs): conversion of a miniserde json::Value tree *)
(* into a typed value by driving the Visitor / Seq / Map protocol from an  *)
(* explicit stack of Event frames instead of recursion.                    *)
(*                                                                         *)
(* The tree is the input; the protocol (the Visitor handed out by          *)
(* T::begin and the Seq / Map builders it returns) is the environment.     *)
(* Each protocol call may be rejected by the environment, and the          *)
(* environment decides when it writes the output slot.  One action of the  *)
(* model is one iteration of the `while let Some(event) = stack.pop()`     *)
(* loop; Return is the `out.ok_or(Error)` that follows the loop.           *)
(***************************************************************************)
EXTENDS Integers, Sequences, FiniteSets, TLC

(***************************************************************************)
(* Bounds of the model.                                                    *)
(***************************************************************************)
\* The largest number of nodes of an input tree.
MaxNodes == 3

\* The deepest nesting of the trees of DeepSpec.
MaxDepth == 5

(***************************************************************************)
(* json::Value, as matched in from_value.                                  *)
(***************************************************************************)
Null == [tag |-> "Null"]
Bool(b) == [tag |-> "Bool", b |-> b]
String(s) == [tag |-> "String", s |-> s]
Number(kind, n) == [tag |-> "Number", num |-> kind, n |-> n]
Array(a) == [tag |-> "Array", a |-> a]
Object(o) == [tag |-> "Object", o |-> o]

\* The leaves the inputs are built from: one per arm of the match.
Leaves ==
  { Null, Bool(TRUE), String("s"),
    Number("U64", 5), Number("I64", -5), Number("F64", 12) }

\* The keys of objects, in the order of String's Ord (the BTreeMap's order).
KeyOrder == <<"a", "b">>

\* The strictly increasing selections of m keys: the key sequences a
\* BTreeMap with m entries can iterate.
KeySeqs(m) ==
  { [i \in 1..m |-> KeyOrder[ks[i]]] :
      ks \in { f \in [1..m -> 1..Len(KeyOrder)] :
                 \A i \in 1..m : \A j \in 1..m : i < j => f[i] < f[j] } }

RECURSIVE ValuesOfSize(_), Forests(_)
\* The sequences of trees with n nodes in total.
Forests(n) ==
  IF n = 0 THEN { <<>> }
  ELSE UNION { { <<t>> \o f : t \in ValuesOfSize(k), f \in Forests(n - k) } :
               k \in 1..n }

\* The trees with exactly n nodes.
ValuesOfSize(n) ==
  (IF n = 1 THEN Leaves ELSE {})
  \cup { Array(f) : f \in Forests(n - 1) }
  \cup UNION { { Object([i \in 1..Len(f) |-> <<ks[i], f[i]>>]) :
                   ks \in KeySeqs(Len(f)) } :
               f \in { g \in Forests(n - 1) : Len(g) <= Len(KeyOrder) } }

\* The tree of the test `simple` (lines 73-75), its entries in the BTreeMap's
\* order; floats are written in tenths.
SimpleValue ==
  Object(<< <<"i", Number("U64", 24)>>,
            <<"s", String("This is a test")>>,
            <<"v", Array(<< Number("U64", 10), Number("F64", 12),
                            Number("I64", -50) >>)>> >>)

RECURSIVE Nested(_)
\* The trees nested to depth d with one child per container.
Nested(d) ==
  IF d = 1 THEN Leaves \cup { Array(<<>>), Object(<<>>) }
  ELSE { Array(<<t>>) : t \in Nested(d - 1) }
       \cup { Object(<< <<KeyOrder[1], t>> >>) : t \in Nested(d - 1) }

\* The deep inputs: every nesting from 1 to MaxDepth.
DeepValues == UNION { Nested(d) : d \in 1..MaxDepth }

RECURSIVE ArrayNest(_)
\* The array nested to depth d: [], [[]], [[[]]], ...
ArrayNest(d) == IF d = 1 THEN Array(<<>>) ELSE Array(<< ArrayNest(d - 1) >>)

\* The input trees: finite, acyclic, object keys unique and sorted.
Values == UNION { ValuesOfSize(n) : n \in 1..MaxNodes } \cup { SimpleValue }

IsLeaf(t) == t.tag \notin {"Array", "Object"}

\* The children of a node, in iteration order.
Children(t) ==
  IF t.tag = "Array" THEN t.a
  ELSE IF t.tag = "Object" THEN [i \in 1..Len(t.o) |-> t.o[i][2]]
  ELSE <<>>

RECURSIVE NumNodes(_), NodesIn(_)
\* The number of nodes of a tree, and of a sequence of trees.
NumNodes(t) == 1 + NodesIn(Children(t))
NodesIn(c) == IF c = <<>> THEN 0 ELSE NumNodes(Head(c)) + NodesIn(Tail(c))

RECURSIVE NumElements(_), ElementsIn(_)
\* The number of container elements (array elements and object entries).
NumElements(t) == Len(Children(t)) + ElementsIn(Children(t))
ElementsIn(c) ==
  IF c = <<>> THEN 0 ELSE NumElements(Head(c)) + ElementsIn(Tail(c))

RECURSIVE NumContainers(_), ContainersIn(_)
\* The number of arrays and objects of a tree.
NumContainers(t) == (IF IsLeaf(t) THEN 0 ELSE 1) + ContainersIn(Children(t))
ContainersIn(c) ==
  IF c = <<>> THEN 0 ELSE NumContainers(Head(c)) + ContainersIn(Tail(c))

(***************************************************************************)
(* Option and Result.                                                      *)
(***************************************************************************)
None == [tag |-> "None"]
Some(x) == [tag |-> "Some", val |-> x]
Ok(x) == [tag |-> "Ok", val |-> x]
Err(e) == [tag |-> "Err", err |-> e]
\* miniserde::Error is a unit struct: it has exactly one value.
Error == "Error"
\* The result before from_value has returned.
Pending == [tag |-> "Pending"]

\* Mutant of OkOr: an error of its own for the empty slot.
OkOrNoResult(o) == IF o = None THEN Err("NoResult") ELSE Ok(o.val)

\* Mutant of OkOr: unwrap_or_default in place of ok_or(Error).
OkOrDefault(o) == IF o = None THEN Ok([ty |-> "unit"]) ELSE Ok(o.val)

\* Option::ok_or(Error) of line 62.
OkOr(o) == IF o = None THEN Err(Error) ELSE Ok(o.val)

(***************************************************************************)
(* The state.                                                              *)
(***************************************************************************)
VARIABLES
  v,         \* the argument: the root of the tree
  populate,  \* when the protocol writes the output slot (environment)
  out,       \* `out`: the output slot handed to T::begin
  stack,     \* `stack`: the Vec<Event>, bottom first
  builders,  \* the boxed Seq / Map builders ever begun, by id
  handles,   \* the &mut dyn Visitor handles ever given out, by id
  pc,        \* "loop" inside from_value, "done" once it has returned
  result,    \* the value from_value returns
  dropped,   \* the frames discarded unprocessed by an early return
  popped,    \* history: the number of frames popped by the loop
  log        \* history: the protocol calls made, in order

vars ==
  <<v, populate, out, stack, builders, handles, pc, result, dropped, popped, log>>

\* The three Event variants.
VisitorEvent(node, h) == [kind |-> "Visitor", v |-> node, visitor |-> h]
SeqEvent(arr, b) == [kind |-> "Seq", arr |-> arr, seq |-> b]
MapEvent(obj, b) == [kind |-> "Map", obj |-> obj, map |-> b]

\* The place the output slot is: visitors of place 0 write `out`, visitors
\* of place b > 0 write the element slot of builder b.
RootPlace == 0

\* When a protocol writes `out`: on completion of the root value, already
\* when the root visitor begins a container (and again on completion), or
\* never (a degenerate protocol).
PopulateModes == {"complete", "begin", "never"}

\* The state on entry to the loop (lines 19-21) for an argument of `values`.
Start(values) ==
  /\ v \in values
  /\ populate \in PopulateModes
  /\ out = None
  /\ handles = << [place |-> RootPlace, used |-> FALSE] >>
  /\ stack = << VisitorEvent(v, 1) >>
  /\ builders = <<>>
  /\ pc = "loop"
  /\ result = Pending
  /\ dropped = <<>>
  /\ popped = 0
  /\ log = <<>>

Init == Start(Values)

DeepInit == Start(DeepValues)


(***************************************************************************)
(* The protocol (the environment): what the calls made by from_value do    *)
(* when they are accepted.  A visitor stores the value it accepts in its   *)
(* place; a builder collects the values stored in its element slot and     *)
(* stores the collection in the place of the visitor that began it.        *)
(***************************************************************************)
\* The value a visitor stores when the acceptance method `call` is called
\* with the content of leaf `node`.
Accepted(call, node) ==
  CASE call = "null" -> [ty |-> "unit"]
    [] call = "boolean" -> [ty |-> "bool", b |-> node.b]
    [] call = "string" -> [ty |-> "string", s |-> node.s]
    [] call = "nonnegative" -> [ty |-> "u64", n |-> node.n]
    [] call = "negative" -> [ty |-> "i64", n |-> node.n]
    [] call = "float" -> [ty |-> "f64", n |-> node.n]

\* A builder as returned by visitor.seq() / visitor.map(): boxed, so it is
\* identified by its id; `place` is where finish() stores the collection.
\* careful! (lines 34, 40, 46, 54) only changes the lifetime in the type of
\* the box or the reference it is given: the value is the same builder or
\* handle, so it has no definition here.
NewBuilder(kind, place) ==
  [kind |-> kind, place |-> place, acc |-> <<>>, element |-> None,
   key |-> "", alive |-> TRUE, finished |-> FALSE]

\* The builder with the content of its element slot moved to the collection.
Committed(bd) ==
  IF bd.element = None THEN bd
  ELSE [bd EXCEPT !.element = None,
                  !.acc = Append(bd.acc,
                                 IF bd.kind = "Seq" THEN bd.element.val
                                 ELSE <<bd.key, bd.element.val>>)]

\* The collection a builder stores on finish().
Collected(bd) ==
  IF bd.kind = "Seq" THEN [ty |-> "vec", items |-> Committed(bd).acc]
  ELSE [ty |-> "map", entries |-> Committed(bd).acc]

\* The value out holds between the root visitor beginning a container and
\* that container being finished, for a protocol that writes out early.
Partial == [ty |-> "partial"]

\* <<out, builders>> after value x is stored in place p.
Stored(p, x, o, bs) ==
  IF p = RootPlace
  THEN << IF populate = "never" THEN o ELSE Some(x), bs >>
  ELSE << o, [bs EXCEPT ![p].element = Some(x)] >>

\* out after the visitor of place p has begun a container.
Begun(p, o) ==
  IF p = RootPlace /\ populate = "begin" THEN Some(Partial) ELSE o

\* Every builder dropped: from_value has returned.
AllDropped(bs) == [i \in 1..Len(bs) |-> [bs[i] EXCEPT !.alive = FALSE]]

(***************************************************************************)
(* The driver: lines 22-62.                                                *)
(***************************************************************************)
\* The entry of the log for one protocol call.  `on` is the handle (of a
\* visitor call) or the builder (of element / key / finish) the call is made
\* on, `node` the node the call is made for, `ret` the builder or handle
\* the call returns (0: none).
Call(name, on, node, key, ok, ret) ==
  [call |-> name, on |-> on, node |-> node, key |-> key, ok |-> ok, ret |-> ret]

\* Mutant of LeafCall: the arms of the two integer variants exchanged.
LeafCallSwapped(node) ==
  CASE node.tag = "Null" -> "null"
    [] node.tag = "Bool" -> "boolean"
    [] node.tag = "String" -> "string"
    [] node.tag = "Number" /\ node.num = "U64" -> "negative"
    [] node.tag = "Number" /\ node.num = "I64" -> "nonnegative"
    [] node.tag = "Number" /\ node.num = "F64" -> "float"

\* The acceptance method called for a leaf: the match of lines 25-30.
LeafCall(node) ==
  CASE node.tag = "Null" -> "null"
    [] node.tag = "Bool" -> "boolean"
    [] node.tag = "String" -> "string"
    [] node.tag = "Number" /\ node.num = "U64" -> "nonnegative"
    [] node.tag = "Number" /\ node.num = "I64" -> "negative"
    [] node.tag = "Number" /\ node.num = "F64" -> "float"

\* Mutant of Try: the Err of a call is ignored.
TryIgnored(ok) == TRUE

\* The `?` after every protocol call: go on iff the call returned Ok.
Try(ok) == ok

\* Mutant of Iter: the collection iterated from its end.
IterReversed(c) == [i \in 1..Len(c) |-> c[Len(c) + 1 - i]]

\* a.iter() and o.iter() of lines 33 and 39: an iterator is the sequence of
\* the items it has not yielded yet, so a new one is the whole collection.
Iter(c) == c

\* Mutant of Advance: the iterator is not advanced.
AdvanceStuck(it) == it

\* Mutant of Advance: the iterator skips the item after the one it yields.
AdvanceSkip(it) == IF Len(it) > 1 THEN Tail(Tail(it)) ELSE Tail(it)

\* Iterator::next: the iterator once it has yielded its first item.
Advance(it) == Tail(it)

\* Mutant of PushBoth: the child pushed first, the continuation on top.
PushSwapped(s, cont, child) == s \o << child, cont >>

\* Mutant of PushBoth: the continuation is not pushed back.
PushChildOnly(s, cont, child) == Append(s, child)

\* Mutant of PushBoth: the continuation is pushed twice.
PushTwice(s, cont, child) == s \o << cont, cont, child >>

\* Lines 47-48 and 55-56: the continuation pushed first, the child on top.
PushBoth(s, cont, child) == s \o << cont, child >>

\* Mutant of Rest: the frame is read and left on the stack.
RestPeeked == stack

\* stack.pop() of line 22: the frame popped and the frames left.
Top == stack[Len(stack)]
Rest == SubSeq(stack, 1, Len(stack) - 1)

\* Mutant of Fail: the loop is left with `break`, so line 62 still runs.
FailBreak ==
  /\ pc' = "done"
  /\ result' = OkOr(out)
  /\ stack' = <<>>
  /\ dropped' = Rest
  /\ builders' = AllDropped(builders)
  /\ UNCHANGED out

\* An Err propagated by `?`: from_value returns it and its locals are
\* dropped, the stack's frames unprocessed.
Fail ==
  /\ pc' = "done"
  /\ result' = Err(Error)
  /\ stack' = <<>>
  /\ dropped' = Rest
  /\ builders' = AllDropped(builders)
  /\ UNCHANGED out

\* Lines 24-30: a Visitor event whose node is a leaf.
VisitLeaf ==
  /\ pc = "loop" /\ stack # <<>>
  /\ Top.kind = "Visitor" /\ IsLeaf(Top.v)
  /\ \E ok \in BOOLEAN :
       /\ log' = Append(log, Call(LeafCall(Top.v), Top.visitor, Top.v, "", ok, 0))
       /\ IF Try(ok)
          THEN LET w == Stored(handles[Top.visitor].place,
                               Accepted(LeafCall(Top.v), Top.v), out, builders)
               IN /\ out' = w[1]
                  /\ builders' = w[2]
                  /\ stack' = Rest
                  /\ UNCHANGED <<pc, result, dropped>>
          ELSE Fail
  /\ handles' = [handles EXCEPT ![Top.visitor].used = TRUE]
  /\ popped' = popped + 1
  /\ UNCHANGED <<v, populate>>

\* Lines 31-42: a Visitor event whose node is an array (kind = "Seq",
\* visitor.seq()) or an object (kind = "Map", visitor.map()).
VisitContainer(kind, call, it) ==
  /\ pc = "loop" /\ stack # <<>>
  /\ Top.kind = "Visitor"
  /\ LET b == Len(builders) + 1
         p == handles[Top.visitor].place
     IN \E ok \in BOOLEAN :
          /\ log' = Append(log, Call(call, Top.visitor, Top.v, "", ok,
                                     IF ok THEN b ELSE 0))
          /\ IF Try(ok)
             THEN /\ builders' = Append(builders, NewBuilder(kind, p))
                  /\ out' = Begun(p, out)
                  /\ stack' = Append(Rest, IF kind = "Seq" THEN SeqEvent(it, b)
                                                ELSE MapEvent(it, b))
                  /\ UNCHANGED <<pc, result, dropped>>
             ELSE Fail
  /\ handles' = [handles EXCEPT ![Top.visitor].used = TRUE]
  /\ popped' = popped + 1
  /\ UNCHANGED <<v, populate>>

VisitArray ==
  /\ stack # <<>> /\ Top.kind = "Visitor" /\ Top.v.tag = "Array"
  /\ VisitContainer("Seq", "seq", Iter(Top.v.a))

VisitObject ==
  /\ stack # <<>> /\ Top.kind = "Visitor" /\ Top.v.tag = "Object"
  /\ VisitContainer("Map", "map", Iter(Top.v.o))

\* Lines 45-49 and 53-57: a continuation whose iterator yields an item:
\* seq.element() / map.key(k), then both frames pushed.
Continue(b, call, key, child, cont) ==
  LET h == Len(handles) + 1
  IN \E ok \in BOOLEAN :
       /\ log' = Append(log, Call(call, b, child, key, ok, IF ok THEN h ELSE 0))
       /\ IF Try(ok)
          THEN /\ builders' = [builders EXCEPT ![b] =
                                 [Committed(builders[b]) EXCEPT !.key = key]]
               /\ handles' = Append(handles, [place |-> b, used |-> FALSE])
               /\ stack' = PushBoth(Rest, cont, VisitorEvent(child, h))
               /\ UNCHANGED <<out, pc, result, dropped>>
          ELSE Fail /\ UNCHANGED handles
  /\ popped' = popped + 1
  /\ UNCHANGED <<v, populate>>

\* Lines 50 and 58: a continuation whose iterator is exhausted: finish(),
\* and the builder is dropped at the end of the arm.
Finish(b) ==
  /\ \E ok \in BOOLEAN :
       /\ log' = Append(log, Call("finish", b, None, "", ok, 0))
       /\ IF Try(ok)
          THEN LET w == Stored(builders[b].place, Collected(builders[b]), out,
                               [builders EXCEPT ![b] =
                                  [Committed(builders[b]) EXCEPT
                                     !.alive = FALSE, !.finished = TRUE]])
               IN /\ out' = w[1]
                  /\ builders' = w[2]
                  /\ stack' = Rest
                  /\ UNCHANGED <<pc, result, dropped>>
          ELSE Fail
  /\ popped' = popped + 1
  /\ UNCHANGED <<v, populate, handles>>

SeqNext ==
  /\ pc = "loop" /\ stack # <<>>
  /\ Top.kind = "Seq" /\ Top.arr # <<>>
  /\ Continue(Top.seq, "element", "", Head(Top.arr),
              SeqEvent(Advance(Top.arr), Top.seq))

SeqFinish ==
  /\ pc = "loop" /\ stack # <<>>
  /\ Top.kind = "Seq" /\ Top.arr = <<>>
  /\ Finish(Top.seq)

MapNext ==
  /\ pc = "loop" /\ stack # <<>>
  /\ Top.kind = "Map" /\ Top.obj # <<>>
  /\ Continue(Top.map, "key", Head(Top.obj)[1], Head(Top.obj)[2],
              MapEvent(Advance(Top.obj), Top.map))

MapFinish ==
  /\ pc = "loop" /\ stack # <<>>
  /\ Top.kind = "Map" /\ Top.obj = <<>>
  /\ Finish(Top.map)

\* Line 62: the loop has ended with the stack empty.
Return ==
  /\ pc = "loop" /\ stack = <<>>
  /\ pc' = "done"
  /\ result' = OkOr(out)
  /\ builders' = AllDropped(builders)
  /\ UNCHANGED <<v, populate, out, stack, handles, dropped, popped, log>>

Next ==
  \/ VisitLeaf
  \/ VisitArray
  \/ VisitObject
  \/ SeqNext
  \/ SeqFinish
  \/ MapNext
  \/ MapFinish
  \/ Return

Spec == Init /\ [][Next]_vars

\* The deep inputs under the same driver.
DeepSpec == DeepInit /\ [][Next]_vars

\* from_value is one synchronous call: a step that can be taken is taken.
\* The log is a history that grows with every call, so it is capped at
\* three calls per node, more than any conversion makes (C8_CapUnreached):
\* a driver that did not stop would show as a run that ends short of
\* returning.
Capped == Len(log) < 3 * NumNodes(v)

FairNext == Capped /\ Next

FairSpec == Init /\ [][FairNext]_vars /\ WF_vars(FairNext)

DeepFairSpec == DeepInit /\ [][FairNext]_vars /\ WF_vars(FairNext)


(***************************************************************************)
(* Auxiliary definitions of the properties.                                *)
(***************************************************************************)
\* A protocol call has been rejected.
Failed == \E i \in 1..Len(log) : ~log[i].ok

VisitorCalls ==
  {"null", "boolean", "string", "nonnegative", "negative", "float", "seq", "map"}

\* The positions of the log that are calls on builder b named `call`.
CallsOn(b, call) == { i \in 1..Len(log) : log[i].call = call /\ log[i].on = b }

\* The position in the log of the k-th call on builder b named `call`.
NthCallOn(b, call, k) ==
  CHOOSE i \in CallsOn(b, call) :
    Cardinality({ j \in CallsOn(b, call) : j <= i }) = k

\* The typed value a tree encodes to, inverted: the tree of a typed value.
RECURSIVE encode(_)
encode(x) ==
  CASE x.ty = "unit" -> Null
    [] x.ty = "bool" -> Bool(x.b)
    [] x.ty = "string" -> String(x.s)
    [] x.ty = "u64" -> Number("U64", x.n)
    [] x.ty = "i64" -> Number("I64", x.n)
    [] x.ty = "f64" -> Number("F64", x.n)
    [] x.ty = "vec" -> Array([i \in 1..Len(x.items) |-> encode(x.items[i])])
    [] x.ty = "map" ->
         Object([i \in 1..Len(x.entries) |->
                   <<x.entries[i][1], encode(x.entries[i][2])>>])
    [] OTHER -> [tag |-> "Invalid"]

(***************************************************************************)
(* C1. Fail-fast: once a protocol call has failed, the driver stops at     *)
(* that step: the failed call is the last call ever made (no element       *)
(* visitor is requested for a later element, no builder left on the stack  *)
(* is finished), and from_value has returned, its stack discarded.         *)
(***************************************************************************)
C1_FailFast ==
  \A i \in 1..Len(log) :
    ~log[i].ok => i = Len(log) /\ pc = "done" /\ stack = <<>>

\* A call has failed while a sequence builder with elements still to come
\* was on the stack.
C1_Witness ==
  /\ pc = "done" /\ Failed
  /\ \E i \in 1..Len(dropped) : dropped[i].kind = "Seq" /\ dropped[i].arr # <<>>

(***************************************************************************)
(* C3. No partial result: once a protocol call has failed, from_value      *)
(* returns Err, whatever the output slot holds; Ok is returned only with   *)
(* the stack empty and no call failed.                                     *)
(***************************************************************************)
C3_NoPartialResult ==
  /\ Failed => pc = "done" /\ result.tag = "Err"
  /\ result.tag = "Ok" => pc = "done" /\ stack = <<>> /\ ~Failed

\* A call has failed with the output slot already written.
C3_Witness == pc = "done" /\ Failed /\ out # None /\ result.tag = "Err"

(***************************************************************************)
(* C4. When the loop ends with the stack empty and no call failed,         *)
(* from_value returns the content of the output slot if the protocol       *)
(* wrote it, and the `result never produced` error otherwise.              *)
(***************************************************************************)
C4_SlotOrNoResult ==
  (pc = "done" /\ ~Failed) =>
    /\ out = None => result = Err(Error)
    /\ out # None => result = Ok(out.val)

\* A whole container was converted and the protocol never wrote the slot.
C4_Witness ==
  /\ pc = "done" /\ ~Failed /\ out = None /\ result.tag = "Err"
  /\ \E i \in 1..Len(log) : log[i].call = "finish"


(***************************************************************************)
(* C2. Round-trip: with a protocol that is the inverse of the encoding     *)
(* (it accepts every call and writes the output slot), from_value of the   *)
(* tree that encodes x returns Ok(x).                                      *)
(***************************************************************************)
C2_RoundTrip ==
  (pc = "done" /\ ~Failed /\ populate # "never") =>
    result.tag = "Ok" /\ encode(result.val) = v

\* The record of the test `simple` has been returned: an object with a
\* string field, an integer field and an array-of-number field.
C2_Witness ==
  /\ pc = "done" /\ v = SimpleValue /\ result.tag = "Ok"
  /\ result.val.ty = "map" /\ Len(result.val.entries) = 3
  /\ result.val.entries[3][2].ty = "vec"
  /\ Len(result.val.entries[3][2].items) = 3

(***************************************************************************)
(* C5. As claimed: the error returned when the traversal ends without the  *)
(* slot written differs from the error returned when a protocol call       *)
(* rejects a node.  The code returns the same value for both.              *)
(***************************************************************************)
\* The error line 62 returns for an empty slot.
NoResultError == OkOr(None).err

\* C5 as stated: a rejection never returns the no-result error.
C5_DistinctErrors == (pc = "done" /\ Failed) => result.err # NoResultError

\* C5 as amended: every failure of from_value, a rejection or an empty
\* slot, returns Err of the one value Error, so the returned error does not
\* tell the two cases apart.
C5_SameError ==
  /\ (pc = "done" /\ Failed) => result = Err(Error)
  /\ (pc = "done" /\ ~Failed /\ out = None) => result = Err(Error)

\* A rejection has returned the very value the empty slot is reported with.
C5_Witness == pc = "done" /\ Failed /\ result = Err(NoResultError)

(***************************************************************************)
(* C6. Leaf dispatch: for a leaf exactly one call is made on its visitor,  *)
(* the acceptance method of the node's tag: Null -> null, Bool -> boolean, *)
(* String -> string, U64 -> nonnegative, I64 -> negative, F64 -> float;    *)
(* never seq or map.                                                       *)
(***************************************************************************)
MethodOfTag ==
  { <<Null.tag, "", "null">>, <<"Bool", "", "boolean">>,
    <<"String", "", "string">>, <<"Number", "U64", "nonnegative">>,
    <<"Number", "I64", "negative">>, <<"Number", "F64", "float">> }

\* C6: every leaf visited gets exactly one call, the method of its tag.
C6_LeafDispatch ==
  /\ \A h \in 1..Len(handles) :
       handles[h].used =>
         Cardinality({ i \in 1..Len(log) :
                         log[i].call \in VisitorCalls /\ log[i].on = h }) = 1
  /\ \A i \in 1..Len(log) :
       (log[i].call \in VisitorCalls /\ IsLeaf(log[i].node)) =>
         /\ <<log[i].node.tag,
              IF log[i].node.tag = "Number" THEN log[i].node.num ELSE "",
              log[i].call>> \in MethodOfTag
         /\ \A j \in 1..Len(log) :
              (log[j].call \in VisitorCalls /\ log[j].on = log[i].on) => j = i

\* The three numbers of the test's array have been dispatched.
C6_Witness ==
  /\ \E i \in 1..Len(log) : log[i].call = "nonnegative" /\ log[i].ok
  /\ \E i \in 1..Len(log) : log[i].call = "negative" /\ log[i].ok
  /\ \E i \in 1..Len(log) : log[i].call = "float" /\ log[i].ok

(***************************************************************************)
(* C7. Order preservation: the k-th element visitor requested from the     *)
(* builder of an array is used for the array's k-th element, at most one   *)
(* request per element and exactly one once the builder is finished; the   *)
(* k-th key requested from the builder of an object is the key of its k-th *)
(* entry, and the visitor returned is used for the value of that entry.    *)
(***************************************************************************)
\* The items (children, keys) of the container whose builder call i begins.
ItemsOf(i) ==
  IF log[i].call = "seq"
  THEN [k \in 1..Len(log[i].node.a) |-> <<"", log[i].node.a[k]>>]
  ELSE log[i].node.o

\* C7: element and key requests follow the container's iteration order.
C7_OrderPreserved ==
  \A i \in 1..Len(log) :
    (log[i].call \in {"seq", "map"} /\ log[i].ok) =>
      LET b == log[i].ret
          req == IF log[i].call = "seq" THEN "element" ELSE "key"
          n == Cardinality(CallsOn(b, req))
      IN /\ n <= Len(ItemsOf(i))
         /\ (\E j \in CallsOn(b, "finish") : TRUE) => n = Len(ItemsOf(i))
         /\ \A k \in 1..n :
              LET c == log[NthCallOn(b, req, k)]
              IN /\ c.key = ItemsOf(i)[k][1]
                 /\ \A j \in 1..Len(log) :
                      (c.ok /\ log[j].call \in VisitorCalls /\ log[j].on = c.ret)
                        => log[j].node = ItemsOf(i)[k][2]

\* All values of an object with several entries, and all three elements of
\* an array, have been visited.
C7_Witness ==
  /\ \E i \in 1..Len(log) :
       /\ log[i].call = "map" /\ log[i].ok /\ Len(log[i].node.o) >= 2
       /\ \E j \in CallsOn(log[i].ret, "finish") : TRUE
  /\ \E i \in 1..Len(log) :
       /\ log[i].call = "seq" /\ log[i].ok /\ Len(log[i].node.a) = 3
       /\ \E j \in CallsOn(log[i].ret, "finish") : TRUE

(***************************************************************************)
(* C9. As claimed: in a conversion where no call fails, the number of      *)
(* frames popped is the number of nodes plus the number of container       *)
(* elements.  The code pops one frame more for every container: the        *)
(* continuation whose iterator is exhausted.                               *)
(***************************************************************************)
\* C9 as stated: frames popped = nodes + container elements.
C9_FrameCountClaimed ==
  (pc = "done" /\ ~Failed) => popped = NumNodes(v) + NumElements(v)

\* C9 as amended: in a conversion where no call fails, the number of frames
\* popped is nodes plus container elements plus containers.
C9_FrameCount ==
  (pc = "done" /\ ~Failed) =>
    popped = NumNodes(v) + NumElements(v) + NumContainers(v)

\* A tree with nested containers has been converted.
C9_Witness ==
  /\ pc = "done" /\ ~Failed /\ NumContainers(v) >= 2 /\ NumElements(v) >= 3
  /\ popped = NumNodes(v) + NumElements(v) + NumContainers(v)


(***************************************************************************)
(* C8. Termination: for every tree and every protocol, whether its calls   *)
(* succeed or fail, from_value eventually stops (with the stack empty or   *)
(* by aborting on a failed call).                                          *)
(***************************************************************************)
C8_Termination == <>(pc = "done")

\* The cap of FairNext is never what stops the driver.
C8_CapUnreached == Len(log) < 3 * NumNodes(v)

\* The longest conversion of its size has run to its end: every node a
\* container, every call accepted.
C8_Witness ==
  /\ pc = "done" /\ ~Failed
  /\ NumNodes(v) = MaxNodes /\ Len(log) = 3 * NumNodes(v) - 1

(***************************************************************************)
(* C10. Depth independence: for a tree nested to any depth and a protocol  *)
(* that accepts it, from_value completes with Ok; the nesting is held by   *)
(* the frames of the stack alone: the containers that are open are         *)
(* exactly the builders of the continuation frames, one frame each.        *)
(***************************************************************************)
\* The builders held by the continuation frames, bottom first.
FrameBuilders ==
  LET conts == SelectSeq(stack, LAMBDA e : e.kind # "Visitor")
  IN [i \in 1..Len(conts) |->
        IF conts[i].kind = "Seq" THEN conts[i].seq ELSE conts[i].map]

\* The open containers are the builders of the continuation frames.
C10_NestingOnStack ==
  pc = "loop" =>
    /\ \A i \in 1..Len(FrameBuilders) : \A j \in 1..Len(FrameBuilders) :
         i < j => FrameBuilders[i] < FrameBuilders[j]
    /\ { FrameBuilders[i] : i \in 1..Len(FrameBuilders) }
         = { b \in 1..Len(builders) : builders[b].alive }

\* C10: the nesting is on the stack, and the conversion completes with Ok.
C10_DepthIndependent ==
  /\ []C10_NestingOnStack
  /\ <>(pc = "done" /\ ((~Failed /\ populate # "never") => result.tag = "Ok"))

\* The array nested to the greatest depth has been converted.
C10_Witness ==
  pc = "done" /\ v = ArrayNest(MaxDepth) /\ result.tag = "Ok"

(***************************************************************************)
(* C11. Child before continuation: once an element or key visitor has      *)
(* been requested from a builder, every protocol call for that item's      *)
(* whole subtree, the finish of every builder begun inside it included,    *)
(* is made before the same builder is asked for its next item or finished. *)
(***************************************************************************)
BuilderCalls == {"element", "key", "finish"}

\* The handle whose seq() / map() call returned builder b.
HandleOfBuilder(b) ==
  log[CHOOSE i \in 1..Len(log) :
        log[i].call \in {"seq", "map"} /\ log[i].ok /\ log[i].ret = b].on

\* The handle a call is made under: the visitor it is made on, or the
\* visitor that began the builder it is made on.
HandleOfCall(j) ==
  IF log[j].call \in VisitorCalls THEN log[j].on ELSE HandleOfBuilder(log[j].on)

RECURSIVE Under(_, _)
\* Handle g is handle h or was given out inside the subtree converted by h.
Under(h, g) ==
  \/ g = h
  \/ /\ handles[g].place # RootPlace
     /\ Under(h, HandleOfBuilder(handles[g].place))

\* The number of protocol calls the whole conversion of a tree makes.
CallCount(t) == NumNodes(t) + NumElements(t) + NumContainers(t)

\* C11: the calls of an item's subtree all lie between the request for the
\* item and the next call on the same builder, and when that next call is
\* made the subtree is complete.
C11_ChildBeforeContinuation ==
  \A i \in 1..Len(log) :
    (log[i].call \in {"element", "key"} /\ log[i].ok) =>
      LET b == log[i].on
          later == { j \in (i + 1)..Len(log) :
                       log[j].call \in BuilderCalls /\ log[j].on = b }
          inside == { j \in 1..Len(log) : Under(log[i].ret, HandleOfCall(j)) }
      IN /\ \A j \in inside : j > i /\ \A k \in later : j < k
         /\ \A k \in later :
              (\A m \in later : k <= m) =>
                /\ inside = (i + 1)..(k - 1)
                /\ Cardinality(inside) = CallCount(log[i].node)
                /\ \A j \in inside : log[j].ok

\* An item that is itself a container has been converted, its builder
\* finished, and the builder it came from has been called again.
C11_Witness ==
  \E i \in 1..Len(log) : \E j \in 1..Len(log) : \E k \in 1..Len(log) :
    /\ i < j /\ j < k
    /\ log[i].call \in {"element", "key"} /\ ~IsLeaf(log[i].node)
    /\ log[j].call = "finish" /\ Under(log[i].ret, HandleOfCall(j))
    /\ log[k].call \in BuilderCalls /\ log[k].on = log[i].on

(***************************************************************************)
(* C12. Finish discipline: finish is called on a builder only when its     *)
(* iterator is exhausted (every item has been requested), at most once     *)
(* per builder, and exactly once for every builder begun when no call      *)
(* fails; an empty array or object is begun and then finished with no      *)
(* element or key requested in between.                                    *)
(***************************************************************************)
\* The positions of the log that request an item from builder b.
Requests(b) ==
  { i \in 1..Len(log) : log[i].call \in {"element", "key"} /\ log[i].on = b }

C12_FinishDiscipline ==
  \A i \in 1..Len(log) :
    (log[i].call \in {"seq", "map"} /\ log[i].ok) =>
      LET b == log[i].ret
          fin == CallsOn(b, "finish")
      IN /\ Cardinality(fin) <= 1
         /\ \A j \in fin :
              /\ Cardinality({ r \in Requests(b) : r < j }) = Len(ItemsOf(i))
              /\ \A r \in Requests(b) : r < j /\ log[r].ok
              /\ Len(ItemsOf(i)) = 0 => j = i + 1
         /\ builders[b].finished <=> \E j \in fin : log[j].ok
         /\ (pc = "done" /\ ~Failed) => Cardinality(fin) = 1

\* A conversion without a failure has ended that began an empty container
\* and one with items.
C12_Witness ==
  /\ pc = "done" /\ ~Failed
  /\ \E i \in 1..Len(log) :
       /\ log[i].call \in {"seq", "map"} /\ Len(ItemsOf(i)) = 0
       /\ log[i + 1].call = "finish" /\ log[i + 1].on = log[i].ret
  /\ \E i \in 1..Len(log) :
       /\ log[i].call \in {"seq", "map"} /\ Len(ItemsOf(i)) >= 2
       /\ CallsOn(log[i].ret, "finish") # {}

(***************************************************************************)
(* C13. As claimed: each driver step pops exactly one frame and pushes     *)
(* zero frames for a Visitor event on a leaf and for a continuation whose  *)
(* iterator is exhausted, exactly one continuation frame (iterator at      *)
(* start) for a Visitor event on an array or object, and exactly two for   *)
(* a continuation with an item remaining, the continuation first and the   *)
(* child's Visitor event on top.  The code does so when the step's         *)
(* protocol call is accepted; when it is rejected the step pushes nothing. *)
(***************************************************************************)
\* The frames below the top are kept and `pushed` is what lies above them.
PushedOnRest(pushed) == stack' = Rest \o pushed

\* The pushes the claim lists, by the kind of the frame popped.
ListedPushes ==
  CASE Top.kind = "Visitor" /\ IsLeaf(Top.v) -> PushedOnRest(<<>>)
    [] Top.kind = "Visitor" /\ Top.v.tag = "Array" ->
         \E b \in 1..Len(builders') : PushedOnRest(<< SeqEvent(Top.v.a, b) >>)
    [] Top.kind = "Visitor" /\ Top.v.tag = "Object" ->
         \E b \in 1..Len(builders') : PushedOnRest(<< MapEvent(Top.v.o, b) >>)
    [] Top.kind = "Seq" /\ Top.arr = <<>> -> PushedOnRest(<<>>)
    [] Top.kind = "Map" /\ Top.obj = <<>> -> PushedOnRest(<<>>)
    [] Top.kind = "Seq" /\ Top.arr # <<>> ->
         \E h \in 1..Len(handles') :
           PushedOnRest(<< SeqEvent(Tail(Top.arr), Top.seq),
                           VisitorEvent(Head(Top.arr), h) >>)
    [] Top.kind = "Map" /\ Top.obj # <<>> ->
         \E h \in 1..Len(handles') :
           PushedOnRest(<< MapEvent(Tail(Top.obj), Top.map),
                           VisitorEvent(Head(Top.obj)[2], h) >>)

\* C13 as stated: every step of the loop makes the listed pushes.
C13_PushesClaimed ==
  [][(pc = "loop" /\ stack # <<>>) => (popped' = popped + 1 /\ ListedPushes)]_vars

\* C13 as amended: a step whose protocol call is accepted pops one frame
\* and makes the listed pushes; a step whose call is rejected pops one frame
\* and pushes none, the frames left being dropped as from_value returns.
C13_Pushes ==
  [][(pc = "loop" /\ stack # <<>>) =>
       /\ popped' = popped + 1
       /\ Len(log') = Len(log) + 1
       /\ IF log'[Len(log')].ok
          THEN ListedPushes /\ pc' = "loop"
          ELSE stack' = <<>> /\ dropped' = Rest /\ pc' = "done"]_vars

\* Two frames have just been pushed on two continuations: the stack holds
\* a Visitor event on a continuation of an inner container.
C13_Witness ==
  /\ pc = "loop" /\ Len(stack) >= 3
  /\ Top.kind = "Visitor" /\ stack[Len(stack) - 1].kind # "Visitor"

(***************************************************************************)
(* C14. Single owner: in every reachable state each builder is held by at  *)
(* most one frame of the stack, and never both by a frame of the stack     *)
(* and by the step being executed (the frame at the top, which the step    *)
(* pops and owns); a builder that is alive inside the loop is held by      *)
(* exactly one frame, and a builder that has been dropped by none.         *)
(***************************************************************************)
\* The positions of the stack whose frame holds builder b.
Holders(b) ==
  { i \in 1..Len(stack) :
      \/ stack[i].kind = "Seq" /\ stack[i].seq = b
      \/ stack[i].kind = "Map" /\ stack[i].map = b }

C14_SingleOwner ==
  \A b \in 1..Len(builders) :
    /\ Cardinality(Holders(b)) <= 1
    /\ (Len(stack) \in Holders(b)) => Holders(b) \cap (1..(Len(stack) - 1)) = {}
    /\ (pc = "loop" /\ builders[b].alive) => Cardinality(Holders(b)) = 1
    /\ ~builders[b].alive => Holders(b) = {}

\* Two builders are alive, each in its own frame, and a third has been
\* finished and dropped.
C14_Witness ==
  /\ pc = "loop"
  /\ Cardinality({ b \in 1..Len(builders) : builders[b].alive }) >= 2
  /\ \E b \in 1..Len(builders) : builders[b].finished

(***************************************************************************)
(* C15. Borrow coupling: in every reachable state a Visitor event whose    *)
(* visitor was obtained from a builder lies directly above the             *)
(* continuation frame holding that builder, which is alive; and no         *)
(* visitor is called after the builder it was borrowed from has been       *)
(* finished.                                                               *)
(***************************************************************************)
C15_BorrowCoupling ==
  /\ \A i \in 1..Len(stack) :
       (stack[i].kind = "Visitor"
          /\ handles[stack[i].visitor].place # RootPlace) =>
         LET b == handles[stack[i].visitor].place
         IN /\ i > 1
            /\ Holders(b) = {i - 1}
            /\ builders[b].alive /\ ~builders[b].finished
  /\ \A j \in 1..Len(log) :
       (log[j].call \in VisitorCalls
          /\ handles[log[j].on].place # RootPlace) =>
         \A k \in CallsOn(handles[log[j].on].place, "finish") : j < k

\* A visitor borrowed from an inner builder is on the stack, on the frame
\* of that builder, after an item of an outer builder has been converted.
C15_Witness ==
  /\ pc = "loop" /\ Len(stack) >= 2 /\ Top.kind = "Visitor"
  /\ handles[Top.visitor].place # RootPlace
  /\ Holders(handles[Top.visitor].place) = {Len(stack) - 1}
  /\ \E j \in 1..Len(log) :
       log[j].call \in VisitorCalls /\ handles[log[j].on].place # RootPlace

(***************************************************************************)
(* C16. Each visitor handle (the root visitor and every element or key     *)
(* visitor obtained from a builder) is consumed at most once: at most one  *)
(* acceptance or begin call is made on it over a run, and it is never in   *)
(* more than one Visitor event; once consumed it is in none.               *)
(***************************************************************************)
\* The positions of the stack whose Visitor event carries handle h.
Carriers(h) ==
  { i \in 1..Len(stack) : stack[i].kind = "Visitor" /\ stack[i].visitor = h }

\* The positions of the log that are calls on visitor handle h.
UsesOf(h) ==
  { j \in 1..Len(log) : log[j].call \in VisitorCalls /\ log[j].on = h }

C16_ConsumedOnce ==
  \A h \in 1..Len(handles) :
    /\ Cardinality(UsesOf(h)) <= 1
    /\ Cardinality(Carriers(h)) <= 1
    /\ handles[h].used <=> UsesOf(h) # {}
    /\ handles[h].used => Carriers(h) = {}
    /\ (pc = "loop" /\ ~handles[h].used) => Cardinality(Carriers(h)) = 1

\* Several handles have been consumed, one to begin a container, and one
\* more is waiting in its Visitor event.
C16_Witness ==
  /\ Cardinality({ h \in 1..Len(handles) : handles[h].used }) >= 3
  /\ \E j \in 1..Len(log) : log[j].call \in {"seq", "map"} /\ log[j].on > 1
  /\ \E h \in 1..Len(handles) : ~handles[h].used /\ Carriers(h) # {}

(***************************************************************************)
(* C17. Equivalence with recursion: the calls the driver makes, with their *)
(* arguments, up to and including the first rejected one, are the calls    *)
(* the recursive depth-first pre-order conversion of the same tree makes   *)
(* under the same protocol, and both return the same result.               *)
(***************************************************************************)
\* The acceptance method of a leaf, read off the table of tags.
MethodFor(node) ==
  CHOOSE m \in VisitorCalls :
    <<node.tag, IF node.tag = "Number" THEN node.num ELSE "", m>> \in MethodOfTag

\* The items (key, child) of a container node, in iteration order.
ItemsIn(node) ==
  IF node.tag = "Array" THEN [k \in 1..Len(node.a) |-> <<"", node.a[k]>>]
  ELSE node.o

\* The recursive conversion under a protocol that accepts every call.  Its
\* state st is the calls made so far and the numbers of builders and of
\* handles given out: visit(node, h) calls the method of a leaf, or begins
\* a builder, converts the items through it and finishes it; items(b, ..)
\* requests a visitor per item and recurses into the child with it.
RECURSIVE RecVisit(_, _, _), RecItems(_, _, _, _)
RecVisit(node, h, st) ==
  IF IsLeaf(node)
  THEN [st EXCEPT !.log = Append(@, Call(MethodFor(node), h, node, "", TRUE, 0))]
  ELSE LET b == st.nb + 1
           begun == [st EXCEPT
                       !.log = Append(@, Call(IF node.tag = "Array" THEN "seq"
                                              ELSE "map", h, node, "", TRUE, b)),
                       !.nb = b]
           filled == RecItems(b, IF node.tag = "Array" THEN "element" ELSE "key",
                              ItemsIn(node), begun)
       IN [filled EXCEPT !.log = Append(@, Call("finish", b, None, "", TRUE, 0))]

RecItems(b, req, items, st) ==
  IF items = <<>> THEN st
  ELSE LET h == st.nh + 1
           asked == [st EXCEPT
                       !.log = Append(@, Call(req, b, Head(items)[2],
                                              Head(items)[1], TRUE, h)),
                       !.nh = h]
       IN RecItems(b, req, Tail(items), RecVisit(Head(items)[2], h, asked))

\* The calls of the recursive conversion of tree t, every call accepted.
RecCalls(t) == RecVisit(t, 1, [log |-> <<>>, nb |-> 0, nh |-> 1]).log

\* The value the recursive conversion stores for a node.
RECURSIVE RecValue(_)
RecValue(node) ==
  IF IsLeaf(node) THEN Accepted(MethodFor(node), node)
  ELSE IF node.tag = "Array"
  THEN [ty |-> "vec", items |-> [k \in 1..Len(node.a) |-> RecValue(node.a[k])]]
  ELSE [ty |-> "map",
        entries |-> [k \in 1..Len(node.o) |->
                       <<node.o[k][1], RecValue(node.o[k][2])>>]]

\* Call i of the recursive conversion as the protocol answers it in this
\* run: a rejected call returns no builder and no handle.
Answered(c, ok) == [c EXCEPT !.ok = ok, !.ret = IF ok THEN @ ELSE 0]

\* What the recursive conversion returns under the protocol of this run: it
\* stops with the error at the first rejected call, and otherwise returns
\* the output slot as ok_or(Error).
RecResult ==
  IF Failed \/ populate = "never" THEN Err(Error) ELSE Ok(RecValue(v))

C17_RecursionEquivalent ==
  LET rec == RecCalls(v)
  IN /\ Len(log) <= Len(rec)
     /\ \A i \in 1..Len(log) :
          /\ log[i] = Answered(rec[i], log[i].ok)
          /\ ~log[i].ok => i = Len(log)
     /\ pc = "done" =>
          /\ result = RecResult
          /\ ~Failed => log = rec

\* The test's tree converted to the end: fifteen calls, as the recursion's.
C17_Witness ==
  /\ pc = "done" /\ ~Failed /\ v = SimpleValue
  /\ Len(log) = 15 /\ result = Ok(RecValue(SimpleValue))

(***************************************************************************)
(* C18. Stack shape: at every iteration of the loop the stack holds at     *)
(* most one Visitor event, and if it holds one it is the top frame; the    *)
(* frames below the top are continuations, and read bottom to top they are *)
(* the builders of the containers on the path from the root to the node    *)
(* being converted.                                                        *)
(***************************************************************************)
\* The builder held by a continuation frame, and the items it still has to
\* yield.
BuilderOf(f) == IF f.kind = "Seq" THEN f.seq ELSE f.map
RemainingOf(f) ==
  IF f.kind = "Seq" THEN [k \in 1..Len(f.arr) |-> <<"", f.arr[k]>>] ELSE f.obj

\* The position in the log of the call that began builder b, and the
\* container node it was begun for.
BeginOf(b) ==
  CHOOSE i \in 1..Len(log) :
    log[i].call \in {"seq", "map"} /\ log[i].ok /\ log[i].ret = b
NodeOfBuilder(b) == log[BeginOf(b)].node

\* The child of the container of continuation frame f that is being
\* converted: the item the iterator yielded last.
CurrentChild(f) ==
  LET items == ItemsIn(NodeOfBuilder(BuilderOf(f)))
  IN items[Len(items) - Len(RemainingOf(f))][2]

\* Frame i (a continuation) is the builder of the container on the path at
\* depth i: the root for i = 1, else the current child of the frame below,
\* begun through a visitor borrowed from that frame's builder; and the
\* items it has left are the tail of that container's items.
OnPath(i) ==
  LET f == stack[i]
      b == BuilderOf(f)
      node == NodeOfBuilder(b)
      items == ItemsIn(node)
      left == RemainingOf(f)
  IN /\ f.kind = (IF node.tag = "Array" THEN "Seq" ELSE "Map")
     /\ builders[b].kind = f.kind
     /\ Len(left) <= Len(items)
     /\ left = SubSeq(items, Len(items) - Len(left) + 1, Len(items))
     /\ IF i = 1
        THEN node = v /\ builders[b].place = RootPlace
        ELSE /\ Len(RemainingOf(stack[i - 1])) <
                  Len(ItemsIn(NodeOfBuilder(BuilderOf(stack[i - 1]))))
             /\ node = CurrentChild(stack[i - 1])
             /\ builders[b].place = BuilderOf(stack[i - 1])

C18_StackShape ==
  pc = "loop" =>
    /\ \A i \in 1..Len(stack) : stack[i].kind = "Visitor" => i = Len(stack)
    /\ Cardinality({ i \in 1..Len(stack) : stack[i].kind = "Visitor" }) <= 1
    /\ \A i \in 1..Len(stack) : stack[i].kind # "Visitor" => OnPath(i)
    /\ (stack # <<>> /\ Top.kind = "Visitor") =>
         IF Len(stack) = 1
         THEN Top.v = v /\ handles[Top.visitor].place = RootPlace
         ELSE /\ Top.v = CurrentChild(stack[Len(stack) - 1])
              /\ handles[Top.visitor].place = BuilderOf(stack[Len(stack) - 1])

\* A leaf two containers down is about to be converted: two continuations
\* under the one Visitor event.
C18_Witness ==
  /\ pc = "loop" /\ Len(stack) = 3
  /\ Top.kind = "Visitor" /\ IsLeaf(Top.v)
  /\ stack[1].kind = "Map" /\ stack[2].kind = "Seq"
  /\ Top.v = CurrentChild(stack[2])

(***************************************************************************)
(* C19. Stack bound: in every reachable state the stack is at most as long *)
(* as the longest root-to-leaf path of the tree has nodes, and holds at    *)
(* least one frame before the first pop, whatever the number of nodes and  *)
(* the width of the containers.                                            *)
(***************************************************************************)
RECURSIVE Height(_), HeightIn(_)
\* The number of nodes on the longest root-to-leaf path of a tree, and the
\* largest such number over a sequence of trees.
Height(t) == 1 + HeightIn(Children(t))
HeightIn(c) ==
  IF c = <<>> THEN 0
  ELSE LET a == Height(Head(c))
           r == HeightIn(Tail(c))
       IN IF a >= r THEN a ELSE r

C19_StackBound ==
  /\ Len(stack) <= Height(v)
  /\ popped = 0 => Len(stack) >= 1
  /\ pc = "loop" /\ stack # <<>> /\ Top.kind = "Visitor" =>
       Len(stack) + Height(Top.v) - 1 <= Height(v)

\* The stack is as long as the bound allows on a tree with more nodes than
\* its longest path, in a container wider than one.
C19_Witness ==
  /\ Len(stack) = Height(v)
  /\ NumNodes(v) > Height(v) + 2
  /\ \E i \in 1..Len(stack) :
       stack[i].kind = "Seq" /\ Len(NodeOfBuilder(stack[i].seq).a) >= 3

====
